---- MODULE Spec2Model ----
(***************************************************************************)
(* pictobox byte streams: StreamOut (src/src/stream-out.ts), a writer that *)
(* splices bytes into a growing Buffer at a seek pointer, and StreamIn     *)
(* (src/unnamed/part_000), a reader over a fixed Buffer.                   *)
(*                                                                         *)
(* The two classes never reference each other, so the state is ONE stream  *)
(* object of either class (cls), its two fields (self.buffer, self.pos)    *)
(* and a record of the last call made on it (last).  A Buffer is a         *)
(* sequence of bytes 0..255; index i of the Buffer is element i+1 of the   *)
(* sequence.                                                               *)
(*                                                                         *)
(* Numbers.  8 and 16 bit values are plain integers.  A 32 bit argument or *)
(* result is a pair <<hi, lo>> standing for hi * 65536 + lo with lo in     *)
(* 0..65535, because the values 2^31 .. 2^32 lie outside the integers of   *)
(* the model checker.                                                      *)
(*                                                                         *)
(* A method is an operator from the object (and arguments) to a record     *)
(* [self, ret, threw]: the object afterwards, the returned value as a      *)
(* sequence (<<>> when nothing is returned or the call threw) and whether  *)
(* the call raised an exception.                                           *)
(***************************************************************************)
EXTENDS Integers, Sequences, FiniteSets, TLC

VARIABLES cls, self, last, legal, noSeek, total, concat

vars == <<cls, self, last, legal, noSeek, total, concat>>

(***************************************************************************)
(* Bounds of the model.                                                    *)
(***************************************************************************)
MaxSize == 5

NegPos == 1

\* The reader's cursor may run a full 32 bit width past the largest buffer.
MaxPos == MaxSize + 4

(***************************************************************************)
(* Inputs.                                                                 *)
(***************************************************************************)
Uint8Values == {20, 255}

Uint8Invalid == {256}

Uint16Values == {4000, 65535}

Uint16Invalid == {65536}

Uint32Values == {<<258, 772>>, <<65535, 65535>>}

Uint32Invalid == {<<65536, 0>>}

Int32Values == {<<-32768, 0>>, <<-1, 65535>>, <<258, 772>>}

Int32Invalid == {<<32768, 0>>}

DataValues == {<<>>, <<160, 15>>}

InitBuffers == {<<>>, <<20, 160, 15>>, <<1, 2, 3, 4, 5>>}

SkipValues == {-1, 0, 3}

SeekValues == (0 - NegPos)..(MaxSize + 1)

ReadLengths == {-1, 0, 2, 3}

(***************************************************************************)
(* Node's Buffer primitives, as the two classes use them.                  *)
(***************************************************************************)
Min(a, b) == IF a < b THEN a ELSE b

Max(a, b) == IF a > b THEN a ELSE b

\* An index given to subarray: a negative one counts from the end, and the
\* result is clamped to 0..len.
RelIndex(i, len) == IF i < 0 THEN Max(len + i, 0) ELSE Min(i, len)

\* buf.subarray(start, end)
Subarray(buf, start, end) ==
    LET b == RelIndex(start, Len(buf))
        e == RelIndex(end, Len(buf))
    IN  IF e > b THEN SubSeq(buf, b + 1, e) ELSE <<>>

\* buf.subarray(start), end omitted
SubarrayFrom(buf, start) == Subarray(buf, start, Len(buf))

\* Buffer.alloc(n), for n >= 0
Zeros(n) == [i \in 1..n |-> 0]

\* Does Buffer.alloc(n) throw?  It rejects a negative size.
AllocThrows(n) == n < 0

Result(obj, ret, threw) == [self |-> obj, ret |-> ret, threw |-> threw]

(***************************************************************************)
(* StreamOut                                                               *)
(***************************************************************************)
StreamOut_new == [buffer |-> <<>>, pos |-> 0]

StreamOut_bytes(o) == Result(o, <<o.buffer>>, FALSE)

StreamOut_size(o) == Result(o, <<Len(o.buffer)>>, FALSE)

StreamOut_seek(o, p) == Result([o EXCEPT !.pos = p], <<>>, FALSE)

\* Variants of writeBytes with a slip in them.
\* The tail is taken after the written span: an overwrite, not an insertion.
StreamOut_writeBytes_overwrite(o, bytes) ==
    LET before == Subarray(o.buffer, 0, o.pos)
        after  == SubarrayFrom(o.buffer, o.pos + Len(bytes))
    IN  Result([buffer |-> before \o bytes \o after,
                pos    |-> o.pos + Len(bytes)], <<>>, FALSE)

\* The cursor is clamped to the end of what was placed before it.
StreamOut_writeBytes_clamped(o, bytes) ==
    LET before == Subarray(o.buffer, 0, o.pos)
        after  == SubarrayFrom(o.buffer, o.pos)
    IN  Result([buffer |-> before \o bytes \o after,
                pos    |-> Len(before) + Len(bytes)], <<>>, FALSE)

\* this.pos = bytes.length in place of this.pos += bytes.length.
StreamOut_writeBytes_setPos(o, bytes) ==
    LET before == Subarray(o.buffer, 0, o.pos)
        after  == SubarrayFrom(o.buffer, o.pos)
    IN  Result([buffer |-> before \o bytes \o after,
                pos    |-> Len(bytes)], <<>>, FALSE)

StreamOut_writeBytes(o, bytes) ==
    LET before == Subarray(o.buffer, 0, o.pos)
        after  == SubarrayFrom(o.buffer, o.pos)
    IN  Result([buffer |-> before \o bytes \o after,
                pos    |-> o.pos + Len(bytes)], <<>>, FALSE)

\* Variants of skip with a slip in them.
\* The reader's skip: the pointer moves, nothing is written.
StreamOut_skip_pointer(o, length) ==
    Result([o EXCEPT !.pos = o.pos + length], <<>>, FALSE)

\* A negative length is treated as zero.
StreamOut_skip_clamped(o, length) ==
    StreamOut_writeBytes(o, Zeros(Max(length, 0)))

StreamOut_skip(o, length) ==
    IF AllocThrows(length)
    THEN Result(o, <<>>, TRUE)
    ELSE StreamOut_writeBytes(o, Zeros(length))

\* Buffer.writeUint8 / writeUint16xx: the value is range checked, then its
\* bytes are stored, least significant first (LE) or last (BE).
OutOfRange(value, min, max) == value < min \/ value > max

Buffer_writeUint8(value) == <<value % 256>>

\* Variant: the two bytes in big-endian order.
Buffer_writeUint16LE_swapped(value) == <<(value \div 256) % 256, value % 256>>

Buffer_writeUint16LE(value) == <<value % 256, (value \div 256) % 256>>

Buffer_writeUint16BE(value) == <<(value \div 256) % 256, value % 256>>

\* 32 bit values are pairs <<hi, lo>>; byte k of the value is
\* (value >>> 8k) & 255, which is two's complement for a negative value.
Buffer_writeUint32LE(value) ==
    <<value[2] % 256, (value[2] \div 256) % 256,
      value[1] % 256, (value[1] \div 256) % 256>>

Buffer_writeUint32BE(value) ==
    <<(value[1] \div 256) % 256, value[1] % 256,
      (value[2] \div 256) % 256, value[2] % 256>>

Buffer_writeInt32LE(value) == Buffer_writeUint32LE(value)

StreamOut_writeUint8(o, uint8) ==
    IF OutOfRange(uint8, 0, 255)
    THEN Result(o, <<>>, TRUE)
    ELSE StreamOut_writeBytes(o, Buffer_writeUint8(uint8))

StreamOut_writeUint16LE(o, uint16) ==
    IF OutOfRange(uint16, 0, 65535)
    THEN Result(o, <<>>, TRUE)
    ELSE StreamOut_writeBytes(o, Buffer_writeUint16LE(uint16))

StreamOut_writeUint32LE(o, uint32) ==
    IF OutOfRange(uint32[1], 0, 65535)
    THEN Result(o, <<>>, TRUE)
    ELSE StreamOut_writeBytes(o, Buffer_writeUint32LE(uint32))

StreamOut_writeInt32LE(o, int32) ==
    IF OutOfRange(int32[1], -32768, 32767)
    THEN Result(o, <<>>, TRUE)
    ELSE StreamOut_writeBytes(o, Buffer_writeInt32LE(int32))

StreamOut_writeUint16BE(o, uint16) ==
    IF OutOfRange(uint16, 0, 65535)
    THEN Result(o, <<>>, TRUE)
    ELSE StreamOut_writeBytes(o, Buffer_writeUint16BE(uint16))

StreamOut_writeUint32BE(o, uint32) ==
    IF OutOfRange(uint32[1], 0, 65535)
    THEN Result(o, <<>>, TRUE)
    ELSE StreamOut_writeBytes(o, Buffer_writeUint32BE(uint32))

(***************************************************************************)
(* StreamIn                                                                *)
(***************************************************************************)
StreamIn_new(buffer) == [buffer |-> buffer, pos |-> 0]

\* Variant: <= in place of <.
StreamIn_hasData_inclusive(o) == Result(o, <<o.pos <= Len(o.buffer)>>, FALSE)

StreamIn_hasData(o) == Result(o, <<o.pos < Len(o.buffer)>>, FALSE)

StreamIn_size(o) == Result(o, <<Len(o.buffer)>>, FALSE)

StreamIn_skip(o, length) == Result([o EXCEPT !.pos = o.pos + length], <<>>, FALSE)

StreamIn_seek(o, p) == Result([o EXCEPT !.pos = p], <<>>, FALSE)

\* Variant: the cursor moves by the number of bytes actually returned.
StreamIn_readBytes_short(o, length) ==
    LET read == Subarray(o.buffer, o.pos, o.pos + length)
    IN  Result([o EXCEPT !.pos = o.pos + Len(read)], <<read>>, FALSE)

StreamIn_readBytes(o, length) ==
    LET read == Subarray(o.buffer, o.pos, o.pos + length)
    IN  Result([o EXCEPT !.pos = o.pos + length], <<read>>, FALSE)

\* Buffer.readUint8 / readUint16xx / ... at offset 0 of the view that
\* readBytes returned: a view shorter than the width is a RangeError.
Buffer_readUint8(b) == b[1]

\* Variant: the two bytes taken in big-endian order.
Buffer_readUint16LE_swapped(b) == b[1] * 256 + b[2]

Buffer_readUint16LE(b) == b[1] + b[2] * 256

Buffer_readUint16BE(b) == b[1] * 256 + b[2]

Buffer_readUint32LE(b) == <<b[3] + b[4] * 256, b[1] + b[2] * 256>>

Buffer_readUint32BE(b) == <<b[1] * 256 + b[2], b[3] * 256 + b[4]>>

\* first + b1 * 2^8 + b2 * 2^16 + (last << 24): the top byte is signed.
Buffer_readInt32LE(b) ==
    <<b[3] + (IF b[4] >= 128 THEN b[4] - 256 ELSE b[4]) * 256,
      b[1] + b[2] * 256>>

\* Variant: a view shorter than the width decodes to 0 instead of throwing.
Decoded_lenient(r, width, value) ==
    IF Len(r.ret[1]) < width
    THEN Result(r.self, <<0>>, FALSE)
    ELSE Result(r.self, <<value>>, FALSE)

\* this.readBytes(width).readX(): the cursor moves first, then the decode
\* of the view returns a number or throws.
Decoded(r, width, value) ==
    IF Len(r.ret[1]) < width
    THEN Result(r.self, <<>>, TRUE)
    ELSE Result(r.self, <<value>>, FALSE)

StreamIn_readUint8(o) ==
    LET r == StreamIn_readBytes(o, 1)
    IN  Decoded(r, 1, Buffer_readUint8(r.ret[1]))

StreamIn_readUint16LE(o) ==
    LET r == StreamIn_readBytes(o, 2)
    IN  Decoded(r, 2, Buffer_readUint16LE(r.ret[1]))

StreamIn_readUint32LE(o) ==
    LET r == StreamIn_readBytes(o, 4)
    IN  Decoded(r, 4, Buffer_readUint32LE(r.ret[1]))

StreamIn_readInt32LE(o) ==
    LET r == StreamIn_readBytes(o, 4)
    IN  Decoded(r, 4, Buffer_readInt32LE(r.ret[1]))

StreamIn_readUint16BE(o) ==
    LET r == StreamIn_readBytes(o, 2)
    IN  Decoded(r, 2, Buffer_readUint16BE(r.ret[1]))

StreamIn_readUint32BE(o) ==
    LET r == StreamIn_readBytes(o, 4)
    IN  Decoded(r, 4, Buffer_readUint32BE(r.ret[1]))

(***************************************************************************)
(* The state machine: a caller constructs one stream and calls methods.    *)
(* last records the call; legal, noSeek, total and concat record the       *)
(* history of calls:                                                       *)
(*   legal   the writer was only given skip(n) with n >= 0 and seek(p)     *)
(*           with 0 <= p <= size(); the reader was only moved by reads     *)
(*           that stay within the buffer;                                  *)
(*   noSeek  seek was never called;                                        *)
(*   total   the summed length of the data written;                        *)
(*   concat  the data written, in call order, while noSeek holds.          *)
(***************************************************************************)
Constructed(o) ==
    [op |-> "constructor", arg |-> <<>>, pre |-> o, ret |-> <<>>, threw |-> FALSE]

Init ==
    /\ \/ cls = "StreamOut" /\ self = StreamOut_new
       \/ cls = "StreamIn" /\ \E b \in InitBuffers : self = StreamIn_new(b)
    /\ last = Constructed(self)
    /\ legal = TRUE
    /\ noSeek = TRUE
    /\ total = 0
    /\ concat = <<>>

Called(op, arg, res) ==
    /\ self' = res.self
    /\ last' = [op |-> op, arg |-> arg, pre |-> self,
                ret |-> res.ret, threw |-> res.threw]
    /\ cls' = cls

\* The history after a write call that handed `data` to writeBytes.
Wrote(data, res) ==
    /\ total' = IF res.threw THEN total ELSE total + Len(data)
    /\ concat' = IF res.threw \/ ~noSeek THEN concat ELSE concat \o data

Fits(n) == Len(self.buffer) + n <= MaxSize

InRange(p) == p >= 0 - NegPos /\ p <= MaxPos

\* ---- StreamOut ----
Bytes ==
    /\ cls = "StreamOut"
    /\ Called("bytes", <<>>, StreamOut_bytes(self))
    /\ UNCHANGED <<legal, noSeek, total, concat>>

Size ==
    /\ cls = "StreamOut"
    /\ Called("size", <<>>, StreamOut_size(self))
    /\ UNCHANGED <<legal, noSeek, total, concat>>

Seek ==
    \E p \in SeekValues :
        /\ cls = "StreamOut"
        /\ Called("seek", <<p>>, StreamOut_seek(self, p))
        /\ legal' = (legal /\ 0 <= p /\ p <= Len(self.buffer))
        /\ noSeek' = FALSE
        /\ concat' = <<>>
        /\ UNCHANGED total

Skip ==
    \E n \in SkipValues :
        /\ cls = "StreamOut"
        /\ Fits(n)
        /\ LET res == StreamOut_skip(self, n)
           IN  Called("skip", <<n>>, res) /\ Wrote(Zeros(n), res)
        /\ legal' = (legal /\ n >= 0)
        /\ UNCHANGED noSeek

WriteBytes ==
    \E data \in DataValues :
        /\ cls = "StreamOut"
        /\ Fits(Len(data))
        /\ LET res == StreamOut_writeBytes(self, data)
           IN  Called("writeBytes", <<data>>, res) /\ Wrote(data, res)
        /\ UNCHANGED <<legal, noSeek>>

WriteUint8 ==
    \E v \in Uint8Values \cup Uint8Invalid :
        /\ cls = "StreamOut"
        /\ Fits(1)
        /\ LET res == StreamOut_writeUint8(self, v)
           IN  Called("writeUint8", <<v>>, res) /\ Wrote(Buffer_writeUint8(v), res)
        /\ UNCHANGED <<legal, noSeek>>

WriteUint16LE ==
    \E v \in Uint16Values \cup Uint16Invalid :
        /\ cls = "StreamOut"
        /\ Fits(2)
        /\ LET res == StreamOut_writeUint16LE(self, v)
           IN  Called("writeUint16LE", <<v>>, res) /\ Wrote(Buffer_writeUint16LE(v), res)
        /\ UNCHANGED <<legal, noSeek>>

WriteUint32LE ==
    \E v \in Uint32Values \cup Uint32Invalid :
        /\ cls = "StreamOut"
        /\ Fits(4)
        /\ LET res == StreamOut_writeUint32LE(self, v)
           IN  Called("writeUint32LE", <<v>>, res) /\ Wrote(Buffer_writeUint32LE(v), res)
        /\ UNCHANGED <<legal, noSeek>>

WriteInt32LE ==
    \E v \in Int32Values \cup Int32Invalid :
        /\ cls = "StreamOut"
        /\ Fits(4)
        /\ LET res == StreamOut_writeInt32LE(self, v)
           IN  Called("writeInt32LE", <<v>>, res) /\ Wrote(Buffer_writeInt32LE(v), res)
        /\ UNCHANGED <<legal, noSeek>>

WriteUint16BE ==
    \E v \in Uint16Values \cup Uint16Invalid :
        /\ cls = "StreamOut"
        /\ Fits(2)
        /\ LET res == StreamOut_writeUint16BE(self, v)
           IN  Called("writeUint16BE", <<v>>, res) /\ Wrote(Buffer_writeUint16BE(v), res)
        /\ UNCHANGED <<legal, noSeek>>

WriteUint32BE ==
    \E v \in Uint32Values \cup Uint32Invalid :
        /\ cls = "StreamOut"
        /\ Fits(4)
        /\ LET res == StreamOut_writeUint32BE(self, v)
           IN  Called("writeUint32BE", <<v>>, res) /\ Wrote(Buffer_writeUint32BE(v), res)
        /\ UNCHANGED <<legal, noSeek>>

\* ---- StreamIn ----
\* A read of `length` bytes stays within the buffer.
Within(length) ==
    self.pos >= 0 /\ length >= 0 /\ self.pos + length <= Len(self.buffer)

HasData ==
    /\ cls = "StreamIn"
    /\ Called("hasData", <<>>, StreamIn_hasData(self))
    /\ UNCHANGED <<legal, noSeek, total, concat>>

SizeIn ==
    /\ cls = "StreamIn"
    /\ Called("size", <<>>, StreamIn_size(self))
    /\ UNCHANGED <<legal, noSeek, total, concat>>

SkipIn ==
    \E n \in SkipValues :
        /\ cls = "StreamIn"
        /\ InRange(self.pos + n)
        /\ Called("skip", <<n>>, StreamIn_skip(self, n))
        /\ legal' = FALSE
        /\ UNCHANGED <<noSeek, total, concat>>

SeekIn ==
    \E p \in SeekValues :
        /\ cls = "StreamIn"
        /\ Called("seek", <<p>>, StreamIn_seek(self, p))
        /\ legal' = FALSE
        /\ noSeek' = FALSE
        /\ UNCHANGED <<total, concat>>

ReadBytes ==
    \E n \in ReadLengths :
        /\ cls = "StreamIn"
        /\ InRange(self.pos + n)
        /\ Called("readBytes", <<n>>, StreamIn_readBytes(self, n))
        /\ legal' = (legal /\ Within(n))
        /\ UNCHANGED <<noSeek, total, concat>>

Read(op, width, res) ==
    /\ cls = "StreamIn"
    /\ InRange(self.pos + width)
    /\ Called(op, <<>>, res)
    /\ legal' = (legal /\ Within(width))
    /\ UNCHANGED <<noSeek, total, concat>>

ReadUint8 == Read("readUint8", 1, StreamIn_readUint8(self))

ReadUint16LE == Read("readUint16LE", 2, StreamIn_readUint16LE(self))

ReadUint32LE == Read("readUint32LE", 4, StreamIn_readUint32LE(self))

ReadInt32LE == Read("readInt32LE", 4, StreamIn_readInt32LE(self))

ReadUint16BE == Read("readUint16BE", 2, StreamIn_readUint16BE(self))

ReadUint32BE == Read("readUint32BE", 4, StreamIn_readUint32BE(self))

Next ==
    \/ Bytes
    \/ Size
    \/ Seek
    \/ Skip
    \/ WriteBytes
    \/ WriteUint8
    \/ WriteUint16LE
    \/ WriteUint32LE
    \/ WriteInt32LE
    \/ WriteUint16BE
    \/ WriteUint32BE
    \/ HasData
    \/ SizeIn
    \/ SkipIn
    \/ SeekIn
    \/ ReadBytes
    \/ ReadUint8
    \/ ReadUint16LE
    \/ ReadUint32LE
    \/ ReadInt32LE
    \/ ReadUint16BE
    \/ ReadUint32BE

Spec == Init /\ [][Next]_vars

(***************************************************************************)
(* Vocabulary of the properties.                                           *)
(***************************************************************************)
IsOut == cls = "StreamOut"

IsIn == cls = "StreamIn"

ReadOps == {"readUint8", "readUint16LE", "readUint32LE", "readInt32LE",
            "readUint16BE", "readUint32BE"}

WriteOps == {"writeUint8", "writeUint16LE", "writeUint32LE", "writeInt32LE",
             "writeUint16BE", "writeUint32BE"}

Width(op) ==
    CASE op \in {"readUint8", "writeUint8"} -> 1
      [] op \in {"readUint16LE", "readUint16BE", "writeUint16LE", "writeUint16BE"} -> 2
      [] OTHER -> 4

\* The call recorded in last was made with 0 <= pos <= size().
PosWasInside == 0 <= last.pre.pos /\ last.pre.pos <= Len(last.pre.buffer)

\* The value of the last typed write lies in the range of its type.
Representable ==
    CASE last.op = "writeUint8" -> last.arg[1] \in 0..255
      [] last.op \in {"writeUint16LE", "writeUint16BE"} -> last.arg[1] \in 0..65535
      [] last.op \in {"writeUint32LE", "writeUint32BE"} -> last.arg[1][1] \in 0..65535
      [] last.op = "writeInt32LE" -> last.arg[1][1] \in -32768..32767
      [] OTHER -> FALSE

\* new = old[0:p] ++ data ++ old[p:], stated index by index.
Spliced(old, p, data, new) ==
    /\ Len(new) = Len(old) + Len(data)
    /\ \A i \in 1..p : new[i] = old[i]
    /\ \A i \in 1..Len(data) : new[p + i] = data[i]
    /\ \A i \in (p + 1)..Len(old) : new[i + Len(data)] = old[i]

\* The matching readX, on a reader constructed over bytes() and moved with
\* seek to where the last write began, returns the value that was written.
ReadBack(readX(_)) ==
    LET reader == StreamIn_new(StreamOut_bytes(self).ret[1])
        r == readX(StreamIn_seek(reader, last.pre.pos).self)
    IN  ~r.threw /\ r.ret = last.arg

(***************************************************************************)
(* C1  Round trip.  After writeX(v) with v representable, made with the    *)
(* cursor at p, 0 <= p <= size(), a reader constructed over bytes() and    *)
(* moved to p with seek returns exactly v from the matching readX.         *)
(***************************************************************************)
C1_RoundTrip ==
    (IsOut /\ last.op \in WriteOps /\ Representable /\ PosWasInside) =>
        /\ last.op = "writeUint8" => ReadBack(StreamIn_readUint8)
        /\ last.op = "writeUint16LE" => ReadBack(StreamIn_readUint16LE)
        /\ last.op = "writeUint16BE" => ReadBack(StreamIn_readUint16BE)
        /\ last.op = "writeUint32LE" => ReadBack(StreamIn_readUint32LE)
        /\ last.op = "writeUint32BE" => ReadBack(StreamIn_readUint32BE)
        /\ last.op = "writeInt32LE" => ReadBack(StreamIn_readInt32LE)

\* A negative Int32 was inserted in front of an existing byte and read back.
C1_Witness ==
    /\ IsOut
    /\ last.op = "writeInt32LE"
    /\ last.arg[1][1] < 0
    /\ last.pre.pos = 0
    /\ Len(last.pre.buffer) > 0
    /\ ReadBack(StreamIn_readInt32LE)

(***************************************************************************)
(* C2  writeBytes(data) inserts: with 0 <= pos <= size() the new buffer is *)
(* old[0:pos] ++ data ++ old[pos:], so bytes before pos keep their index,  *)
(* bytes from pos on move up by data.length and size() grows by            *)
(* data.length.                                                            *)
(***************************************************************************)
C2_Insertion ==
    (IsOut /\ last.op = "writeBytes" /\ PosWasInside) =>
        /\ ~last.threw
        /\ Spliced(last.pre.buffer, last.pre.pos, last.arg[1], self.buffer)

\* Two bytes were inserted strictly inside a buffer: a head and a tail exist.
C2_Witness ==
    /\ IsOut
    /\ last.op = "writeBytes"
    /\ Len(last.arg[1]) = 2
    /\ 0 < last.pre.pos
    /\ last.pre.pos < Len(last.pre.buffer)
    /\ self.buffer[Len(self.buffer)] = last.pre.buffer[Len(last.pre.buffer)]

ShortRead ==
    /\ IsIn
    /\ last.op \in ReadOps
    /\ Len(last.pre.buffer) - last.pre.pos < Width(last.op)

\* C4 as claimed: a fixed-width readX with fewer bytes remaining between pos
\* and size() than its width does not raise an error and returns a number.
C4_ShortReadReturns == ShortRead => (~last.threw /\ Len(last.ret) = 1)

\* C4 amended: such a readX raises (the decode of the truncated view throws)
\* and returns no value; the buffer is unchanged and the cursor has already
\* been advanced by the full width.  Only readBytes itself serves a short
\* read without error, returning the bytes that remain.
C4_ShortReadThrows ==
    /\ ShortRead =>
            /\ last.threw
            /\ Len(last.ret) = 0
            /\ self.buffer = last.pre.buffer
            /\ self.pos = last.pre.pos + Width(last.op)
    /\ (IsIn /\ last.op = "readBytes" /\ last.pre.pos >= 0
             /\ Len(last.pre.buffer) - last.pre.pos < last.arg[1]) =>
            /\ ~last.threw
            /\ last.ret[1] = SubSeq(last.pre.buffer, last.pre.pos + 1,
                                    Len(last.pre.buffer))

\* readUint16LE with exactly one byte left.
C4_Witness ==
    /\ IsIn
    /\ last.op = "readUint16LE"
    /\ last.pre.pos >= 0
    /\ Len(last.pre.buffer) - last.pre.pos = 1
    /\ last.threw

\* Byte k (k = 0 least significant) of the two's complement form of v.
ByteOf(v, k) == (v \div (256 ^ k)) % 256

ByteOf32(v, k) ==
    IF k < 2 THEN ByteOf(v[2], k) ELSE ByteOf(v[1] + 65536, k - 2)

ByteOfArg(k) ==
    IF Width(last.op) = 4 THEN ByteOf32(last.arg[1], k) ELSE ByteOf(last.arg[1], k)

\* Where writeBytes put the first byte it was given.
InsertedAt ==
    IF last.pre.pos < 0
    THEN Max(Len(last.pre.buffer) + last.pre.pos, 0)
    ELSE Min(last.pre.pos, Len(last.pre.buffer))

(***************************************************************************)
(* C5  Endianness.  For a representable v the LE writers insert the bytes  *)
(* of v least significant first and the BE writers most significant first; *)
(* a fresh writer holds [0x14, 0xa0, 0x0f] after writeUint8(0x14) and      *)
(* writeUint16LE(0x0fa0), and a reader over these bytes returns 20, 4000.  *)
(***************************************************************************)
C5_Endianness ==
    /\ (IsOut /\ last.op \in {"writeUint16LE", "writeUint32LE", "writeInt32LE"}
              /\ Representable) =>
            \A k \in 0..(Width(last.op) - 1) :
                self.buffer[InsertedAt + 1 + k] = ByteOfArg(k)
    /\ (IsOut /\ last.op \in {"writeUint16BE", "writeUint32BE"}
              /\ Representable) =>
            \A k \in 0..(Width(last.op) - 1) :
                self.buffer[InsertedAt + 1 + k] = ByteOfArg(Width(last.op) - 1 - k)
    /\ (IsOut /\ last.op = "writeUint8" /\ last.arg = <<20>>
              /\ last.pre = StreamOut_new) =>
            self = [buffer |-> <<20>>, pos |-> 1]
    /\ (IsOut /\ last.op = "writeUint16LE" /\ last.arg = <<4000>>
              /\ last.pre = [buffer |-> <<20>>, pos |-> 1]) =>
            /\ self.buffer = <<20, 160, 15>>
            /\ StreamOut_size(self).ret = <<3>>
            /\ LET a == StreamIn_readUint8(StreamIn_new(self.buffer))
                   b == StreamIn_readUint16LE(a.self)
               IN  a.ret = <<20>> /\ b.ret = <<4000>>
    /\ (IsIn /\ last.op = "readUint8"
             /\ last.pre = StreamIn_new(<<20, 160, 15>>)) =>
            last.ret = <<20>>
    /\ (IsIn /\ last.op = "readUint16LE"
             /\ last.pre = [buffer |-> <<20, 160, 15>>, pos |-> 1]) =>
            last.ret = <<4000>>

\* The documented example: writeUint8(0x14), writeUint16LE(0x0fa0).
C5_Witness ==
    /\ IsOut
    /\ last.op = "writeUint16LE"
    /\ last.arg = <<4000>>
    /\ last.pre = [buffer |-> <<20>>, pos |-> 1]
    /\ self.buffer = <<20, 160, 15>>

(***************************************************************************)
(* C6  Writer skip(length), length >= 0, inserts `length` zero bytes at    *)
(* pos, grows size() by length and advances pos by length, whereas the     *)
(* reader's skip moves pos and leaves the buffer alone; skip(3) on a fresh *)
(* writer gives [0, 0, 0] and pos = 3.                                     *)
(***************************************************************************)
C6_Skip ==
    /\ (IsOut /\ last.op = "skip" /\ last.arg[1] >= 0) =>
            /\ ~last.threw
            /\ Len(self.buffer) = Len(last.pre.buffer) + last.arg[1]
            /\ self.pos = last.pre.pos + last.arg[1]
            /\ \A k \in 1..last.arg[1] : self.buffer[InsertedAt + k] = 0
            /\ PosWasInside =>
                   Spliced(last.pre.buffer, last.pre.pos,
                           [k \in 1..last.arg[1] |-> 0], self.buffer)
    /\ (IsOut /\ last.op = "skip" /\ last.arg = <<3>>
              /\ last.pre = StreamOut_new) =>
            self = [buffer |-> <<0, 0, 0>>, pos |-> 3]
    /\ (IsIn /\ last.op = "skip") =>
            /\ ~last.threw
            /\ self.buffer = last.pre.buffer
            /\ self.pos = last.pre.pos + last.arg[1]

\* Three zero bytes were inserted between two non-zero bytes.
C6_Witness ==
    /\ IsOut
    /\ last.op = "skip"
    /\ last.arg = <<3>>
    /\ last.pre = [buffer |-> <<160, 15>>, pos |-> 1]
    /\ self = [buffer |-> <<160, 0, 0, 0, 15>>, pos |-> 4]

(***************************************************************************)
(* C7  hasData() is true exactly when pos < size(), in every reader state, *)
(* changes neither pos nor the buffer, and for a reader moved only by      *)
(* reads that stay within the buffer it is false exactly when pos has      *)
(* reached size().                                                         *)
(***************************************************************************)
C7_HasData ==
    /\ IsIn => (StreamIn_hasData(self).ret[1] <=> self.pos < Len(self.buffer))
    /\ (IsIn /\ last.op = "hasData") =>
            /\ ~last.threw
            /\ last.ret[1] <=> (last.pre.pos < Len(last.pre.buffer))
            /\ self = last.pre
    /\ (IsIn /\ legal) =>
            (~StreamIn_hasData(self).ret[1] <=> self.pos = Len(self.buffer))

\* hasData() answered false with the cursor exactly at the end of the data.
C7_Witness ==
    /\ IsIn
    /\ last.op = "hasData"
    /\ last.ret = <<FALSE>>
    /\ self.pos = Len(self.buffer)
    /\ Len(self.buffer) > 0
    /\ legal

(***************************************************************************)
(* C8  Negative skip.                                                      *)
(***************************************************************************)
NegativeSkip == last.op = "skip" /\ last.arg[1] < 0

\* C8 as claimed: skip(-k) raises no error on either class, and on the
\* reader it moves pos back by k.
C8_NegativeSkipAccepted ==
    NegativeSkip =>
        /\ ~last.threw
        /\ IsIn => self.pos = last.pre.pos + last.arg[1]

\* C8 amended: the reader accepts skip(-k) and moves pos back by k; the
\* writer's skip(-k) raises (Buffer.alloc rejects the negative size) and
\* leaves the buffer and pos as they were.
C8_NegativeSkip ==
    /\ (IsIn /\ NegativeSkip) =>
            /\ ~last.threw
            /\ self.pos = last.pre.pos + last.arg[1]
            /\ self.buffer = last.pre.buffer
    /\ (IsOut /\ NegativeSkip) =>
            /\ last.threw
            /\ self = last.pre

\* skip(-1) on a writer that holds data, cursor at the end.
C8_Witness ==
    /\ IsOut
    /\ NegativeSkip
    /\ last.threw
    /\ Len(self.buffer) > 0
    /\ self.pos = Len(self.buffer)

(***************************************************************************)
(* C9  writeBytes with the cursor beyond the end.                          *)
(***************************************************************************)
WroteBeyondEnd ==
    /\ IsOut
    /\ last.op = "writeBytes"
    /\ last.pre.pos > Len(last.pre.buffer)

\* C9 as claimed: the buffer becomes old ++ data and the cursor ends at the
\* end of the buffer, pos = size().
C9_ClampedToEnd ==
    WroteBeyondEnd =>
        /\ ~last.threw
        /\ self.buffer = last.pre.buffer \o last.arg[1]
        /\ self.pos = Len(self.buffer)

\* C9 amended: the buffer becomes old ++ data without padding, loss or
\* error, but the cursor is not clamped: pos becomes old pos + data.length
\* and so stays beyond the end of the buffer.
C9_AppendedNotClamped ==
    WroteBeyondEnd =>
        /\ ~last.threw
        /\ self.buffer = last.pre.buffer \o last.arg[1]
        /\ self.pos = last.pre.pos + Len(last.arg[1])
        /\ self.pos > Len(self.buffer)

\* Two bytes written with the cursor beyond the end of a non-empty buffer.
C9_Witness ==
    /\ WroteBeyondEnd
    /\ Len(last.arg[1]) = 2
    /\ Len(last.pre.buffer) > 0
    /\ self.buffer = last.pre.buffer \o last.arg[1]

====
